---- MODULE Spec2Model ----
(***************************************************************************)
(* Loose XML matcher (src/main.cpp): the two key combiners, the recursive  *)
(* node key and the document matcher.                                       *)
(*                                                                          *)
(* A Key is std::size_t, 64 bits wide on the build this models (x86-64,     *)
(* libstdc++).  TLC's integers are 32 bits wide, so a Key is held as four   *)
(* 16-bit limbs, least significant first: <<l0, l1, l2, l3>> stands for     *)
(* l0 + 2^16*l1 + 2^32*l2 + 2^48*l3.  Every operation wraps modulo 2^64.    *)
(***************************************************************************)
EXTENDS Integers, Sequences, FiniteSets

VARIABLES
    pc,               \* position of the running entry point
    keys,             \* the argument pack handed to the combiners
    called,           \* which combiners have been called on keys
    uniqueKey,        \* result of combineKeysUniquely(keys...)
    looseKey,         \* result of combineKeysLoosely(keys...)
    lhsDocument,      \* root element of the left document
    rhsDocument,      \* root element of the right document
    lhsDocumentKey,   \* local lhsDocumentKey of matchXMLDocumentsLoosely
    rhsDocumentKey,   \* local rhsDocumentKey of matchXMLDocumentsLoosely
    matched,          \* return value of matchXMLDocumentsLoosely
    stack,            \* active computeNodeKey invocations, innermost last
    returned,         \* key returned by the invocation that ended last
    nodeCalls,        \* path of a node -> computeNodeKey invocations on it
    attributeReads,   \* <<path, index>> -> reads of that attribute
    childCalls,       \* path of a node -> recursive calls its invocation made
    maxActive         \* largest number of simultaneously active invocations

vars == <<pc, keys, called, uniqueKey, looseKey, lhsDocument, rhsDocument,
          lhsDocumentKey, rhsDocumentKey, matched, stack, returned,
          nodeCalls, attributeReads, childCalls, maxActive>>

combineVars == <<keys, called, uniqueKey, looseKey>>
matchVars == <<rhsDocument, lhsDocumentKey, rhsDocumentKey, matched>>
traverseVars == <<stack, returned, nodeCalls, attributeReads, childCalls, maxActive>>

(***************************************************************************)
(* Key arithmetic: unsigned 64-bit, wrapping.                               *)
(***************************************************************************)
LimbBase == 65536

\* Key{} : the value-initialised key.
ZeroKey == <<0, 0, 0, 0>>

\* the values of Key
Key == [1..4 -> 0..(LimbBase - 1)]

\* exclusive or of two 4-bit digits, bit by bit
XorOfDigits(a, b) ==
    ((a + b) % 2)
    + 2 * (((a \div 2) + (b \div 2)) % 2)
    + 4 * (((a \div 4) + (b \div 4)) % 2)
    + 8 * (((a \div 8) + (b \div 8)) % 2)

\* exclusive or of two bytes
XorByte ==
    [a \in 0..255 |-> [b \in 0..255 |->
        XorOfDigits(a % 16, b % 16) + 16 * XorOfDigits(a \div 16, b \div 16)]]

\* exclusive or of two limbs, byte by byte
XorLimb(a, b) ==
    XorByte[a % 256][b % 256] + 256 * XorByte[a \div 256][b \div 256]

\* operator^ on Key
XorKeys(a, b) ==
    [x \in Key, y \in Key |->
        <<XorLimb(x[1], y[1]), XorLimb(x[2], y[2]),
          XorLimb(x[3], y[3]), XorLimb(x[4], y[4])>>][a, b]

\* operator+ on Key, the carry out of the top limb dropped
AddKeys(a, b) ==
    [x \in Key, y \in Key |->
        LET s1 == x[1] + y[1]
            s2 == x[2] + y[2] + (s1 \div LimbBase)
            s3 == x[3] + y[3] + (s2 \div LimbBase)
            s4 == x[4] + y[4] + (s3 \div LimbBase)
        IN  <<s1 % LimbBase, s2 % LimbBase, s3 % LimbBase, s4 % LimbBase>>][a, b]

\* lhsKey << 6 : bits shifted past bit 63 are lost
ShiftLeft6(a) ==
    [x \in Key |->
        << (x[1] * 64) % LimbBase,
           ((x[2] * 64) % LimbBase) + (x[1] \div 1024),
           ((x[3] * 64) % LimbBase) + (x[2] \div 1024),
           ((x[4] * 64) % LimbBase) + (x[3] \div 1024) >>][a]

\* lhsKey >> 2 : zeros shifted in at the top
ShiftRight2(a) ==
    [x \in Key |->
        << (x[1] \div 4) + (x[2] % 4) * 16384,
           (x[2] \div 4) + (x[3] % 4) * 16384,
           (x[3] \div 4) + (x[4] % 4) * 16384,
           x[4] \div 4 >>][a]

\* 0x9e3779b9
Magic == <<31161, 40503, 0, 0>>

(***************************************************************************)
(* namespace keys                                                           *)
(***************************************************************************)
\* GetHasher<Key>()(key): std::hash of an unsigned integer.  libstdc++ (and
\* libc++) define it as the value itself.
HashOfKey(key) == key

\* Two faulty mixing steps, against which C6 and C7 are tried: one leaves
\* out (lhsKey >> 2), the other only XORs the hash in.
combineKeysUniquelyImplNoShiftRight(lhsKey, rhsKey) ==
    XorKeys(lhsKey, AddKeys(AddKeys(HashOfKey(rhsKey), Magic), ShiftLeft6(lhsKey)))

combineKeysUniquelyImplXorOnly(lhsKey, rhsKey) == XorKeys(lhsKey, HashOfKey(rhsKey))

\* lhsKey ^= hash(rhsKey) + 0x9e3779b9 + (lhsKey << 6) + (lhsKey >> 2);
\* the value is the new lhsKey.
combineKeysUniquelyImpl(lhsKey, rhsKey) ==
    [lhs \in Key, rhs \in Key |->
        XorKeys(lhs, AddKeys(AddKeys(AddKeys(HashOfKey(rhs), Magic), ShiftLeft6(lhs)),
                             ShiftRight2(lhs)))][lhsKey, rhsKey]

RECURSIVE UniqueFold(_, _, _)
\* the comma fold (combineKeysUniquelyImpl(result, keys), ...): the pack
\* members from position i on, applied to result left to right
UniqueFold(result, ks, i) ==
    IF i > Len(ks) THEN result
    ELSE UniqueFold(combineKeysUniquelyImpl(result, ks[i]), ks, i + 1)

\* Key result{}; (combineKeysUniquelyImpl(result, keys), ...); return result;
combineKeysUniquely(ks) == UniqueFold(ZeroKey, ks, 1)

\* What a call with an empty pack yields where the language gives the fold
\* expression no value.
IllFormed == <<>>

RECURSIVE LooseFoldAdding(_, _)
\* A faulty fold, against which C5 is tried: it adds where the code XORs.
LooseFoldAdding(ks, i) ==
    IF i = Len(ks) THEN ks[i]
    ELSE AddKeys(ks[i], LooseFoldAdding(ks, i + 1))

RECURSIVE LooseFold(_, _)
\* the unary right fold (keys ^ ...) = k1 ^ (k2 ^ (... ^ kn)), from position i
LooseFold(ks, i) ==
    IF i = Len(ks) THEN ks[i]
    ELSE XorKeys(ks[i], LooseFold(ks, i + 1))

\* return (keys ^ ...);  A unary fold over ^ has no value for an empty pack:
\* combineKeysLoosely() is ill-formed.
combineKeysLoosely(ks) ==
    IF Len(ks) = 0 THEN IllFormed ELSE LooseFold(ks, 1)

(***************************************************************************)
(* The tree the matcher reads through pugixml.  A node has a type, a name,  *)
(* a value, a list of attributes and a list of children.  An element's text *)
(* is held by child nodes of type pcdata, whose own name is empty; begin()  *)
(* .. end() ranges over every child, the pcdata children included.          *)
(***************************************************************************)
Attribute(name, value) == [name |-> name, value |-> value]

Element(name, attributes, children) ==
    [type |-> "element", name |-> name, value |-> "",
     attributes |-> attributes, children |-> children]

Pcdata(text) ==
    [type |-> "pcdata", name |-> "", value |-> text,
     attributes |-> <<>>, children |-> <<>>]

RECURSIVE FirstTextFrom(_, _)
FirstTextFrom(children, i) ==
    IF i > Len(children) THEN ""
    ELSE IF children[i].type = "pcdata" THEN children[i].value
    ELSE FirstTextFrom(children, i + 1)

\* node.child_value(): the value of the first pcdata child, "" without one
child_value(node) == FirstTextFrom(node.children, 1)

\* GetHasher<std::string>(): std::hash<std::string> of libstdc++ on x86-64,
\* tabulated on the texts the documents below are made of.
StringHashTable ==
    [text \in {"", "r", "x", "y", "a", "b", "1", "2",
               "pqxouyrkxjkohxjd", "trvumytiqjaoophc"} |->
        CASE text = ""  -> <<10862, 7750, 37776, 21822>>   \* 6142509188972423790
          [] text = "r" -> <<15184, 60128, 30657, 51579>>  \* 14518329498511883088
          [] text = "x" -> <<55183, 46465, 5114, 47153>>   \* 13272411544345499535
          [] text = "y" -> <<65030, 34646, 58829, 53860>>  \* 15160494916537613830
          [] text = "a" -> <<60779, 35009, 57060, 17741>>  \* 4993892634952068459
          [] text = "b" -> <<51069, 37877, 20366, 38505>>  \* 10838281452030117757
          [] text = "1" -> <<36515, 64203, 30637, 36095>>  \* 10159970873491820195
          [] text = "2" -> <<12310, 28598, 297, 16170>>    \* 4551451650890805270
          [] text = "pqxouyrkxjkohxjd" -> <<36018, 35533, 13261, 61013>>  \* 17173689711937293490
          [] text = "trvumytiqjaoophc" -> <<7957, 56783, 56457, 34522>>]  \* 9717321630695235349

stringHasher(text) == StringHashTable[text]

(***************************************************************************)
(* namespace matcher::detail                                                *)
(***************************************************************************)
\* A faulty attribute key, against which C3 is tried: the value is not read.
AttributeKeyOfNameOnly(attribute) ==
    combineKeysUniquely(<<stringHasher(attribute.name), stringHasher(attribute.name)>>)

\* one attribute's key: combineKeysUniquely(hash(name), hash(value))
AttributeKey(attribute) ==
    combineKeysUniquely(<<stringHasher(attribute.name), stringHasher(attribute.value)>>)

\* A faulty iteration, against which C10 is tried: every other attribute
\* is skipped.
NextAttributeSkipping(i) == i + 2

\* attributeItr = attributeItr.next_attribute()
NextAttribute(i) == i + 1

RECURSIVE AttributesLoop(_, _, _)
\* the for loop of computeAttributesKey from attribute i on
AttributesLoop(attributes, i, result) ==
    IF i > Len(attributes) THEN result
    ELSE AttributesLoop(attributes, NextAttribute(i),
                        combineKeysLoosely(<<result, AttributeKey(attributes[i])>>))

computeAttributesKey(node) == AttributesLoop(node.attributes, 1, ZeroKey)

\* Two faulty lambdas, against which C1 and C4 are tried: one folds the
\* child's key in by position, the other drops it.
AccumulateStepOrdered(partialKey, childKey) == combineKeysUniquely(<<partialKey, childKey>>)

AccumulateStepDroppingChild(partialKey, childKey) == partialKey

\* the lambda handed to std::accumulate, given the child's key
AccumulateStep(partialKey, childKey) == combineKeysLoosely(<<partialKey, childKey>>)

\* A faulty combination, against which C9 is tried: the text comes before
\* the tag name.
NodeKeyOfTextFirst(name, text, attributesKey, childrenKey) ==
    combineKeysUniquely(<<stringHasher(text), stringHasher(name), attributesKey, childrenKey>>)

\* the combination computeNodeKey returns
NodeKeyOf(name, text, attributesKey, childrenKey) ==
    combineKeysUniquely(<<stringHasher(name), stringHasher(text), attributesKey, childrenKey>>)

RECURSIVE computeNodeKey(_)
RECURSIVE Accumulate(_, _, _)
\* std::accumulate(node.begin(), node.end(), Key{}, lambda) from child i on
Accumulate(children, i, partialKey) ==
    IF i > Len(children) THEN partialKey
    ELSE Accumulate(children, i + 1,
                    AccumulateStep(partialKey, computeNodeKey(children[i])))

computeNodeKey(node) ==
    LET childrenKey == Accumulate(node.children, 1, ZeroKey)
    IN  NodeKeyOf(node.name, child_value(node), computeAttributesKey(node), childrenKey)

(***************************************************************************)
(* Inputs: the documents and the argument packs the entry points are run on *)
(***************************************************************************)
MaxNodes == 3
MaxCopies == 2
MaxKeys == 3

FirstText == "pqxouyrkxjkohxjd"
SecondText == "trvumytiqjaoophc"

\* the elements a left document is made of: <r> and <x a="1" b="1">
ElementLabels ==
    { <<"r", <<>>>>, <<"x", <<Attribute("a", "1"), Attribute("b", "1")>>>> }

\* what an edit may put in place of a name, a text or an attribute value
EditNames == {"r", "x", "y"}
EditTexts == {FirstText, SecondText}
EditValues == {"1", "2"}

RECURSIVE NodesOfSize(_)
RECURSIVE ForestsOfSize(_)
\* the subtrees of exactly n nodes
NodesOfSize(n) ==
    (IF n = 1 THEN {Pcdata(FirstText)} ELSE {})
    \cup { Element(l[1], l[2], f) : l \in ElementLabels, f \in ForestsOfSize(n - 1) }

\* the child lists of exactly n nodes in all; a parser never leaves two
\* pcdata nodes next to each other
ForestsOfSize(n) ==
    IF n = 0 THEN {<<>>}
    ELSE { s \in UNION { { <<c>> \o f : c \in NodesOfSize(k), f \in ForestsOfSize(n - k) } :
                         k \in 1..n } :
           ~(Len(s) >= 2 /\ s[1].type = "pcdata" /\ s[2].type = "pcdata") }

\* document_element() of the documents of at most MaxNodes nodes
Documents ==
    { d \in UNION { NodesOfSize(n) : n \in 1..MaxNodes } : d.type = "element" }

RECURSIVE Paths(_)
\* the nodes of a tree, each named by the child indices leading to it
Paths(node) ==
    {<<>>} \cup UNION { { <<i>> \o p : p \in Paths(node.children[i]) } :
                        i \in 1..Len(node.children) }

RECURSIVE Subtree(_, _)
Subtree(node, path) ==
    IF path = <<>> THEN node
    ELSE Subtree(node.children[Head(path)], Tail(path))

RECURSIVE ReplaceAt(_, _, _)
\* node with the subtree at path replaced by new
ReplaceAt(node, path, new) ==
    IF path = <<>> THEN new
    ELSE [node EXCEPT !.children[Head(path)] = ReplaceAt(@, Tail(path), new)]

Permutations(n) ==
    { f \in [1..n -> 1..n] : \A i, j \in 1..n : f[i] = f[j] => i = j }

Permuted(seq) ==
    { [i \in 1..Len(seq) |-> seq[pi[i]]] : pi \in Permutations(Len(seq)) }

RECURSIVE Rearrangements(_)
\* every tree got from node by reordering attributes and children at every level
Rearrangements(node) ==
    LET n == Len(node.children)
        R == [i \in 1..n |-> Rearrangements(node.children[i])]
        U == UNION { R[i] : i \in 1..n }
        picks == { g \in [1..n -> U] : \A i \in 1..n : g[i] \in R[i] }
        childLists == IF n = 0 THEN {<<>>}
                      ELSE UNION { Permuted(g) : g \in picks }
        attributeLists == IF Len(node.attributes) = 0 THEN {<<>>}
                          ELSE Permuted(node.attributes)
    IN  { [node EXCEPT !.attributes = a, !.children = c] :
              a \in attributeLists, c \in childLists }

\* c copies of the empty element <x/>
Copies(c) == [i \in 1..c |-> Element("x", <<>>, <<>>)]

\* one change made at a node itself: another tag name, another text, another
\* value of one attribute, or copies of <x/> appended to its children
NodeEdits(node) ==
    IF node.type = "pcdata"
    THEN { Pcdata(t) : t \in EditTexts \ {node.value} }
    ELSE { [node EXCEPT !.name = n] : n \in EditNames \ {node.name} }
         \cup UNION { { [node EXCEPT !.attributes[i].value = v] :
                            v \in EditValues \ {node.attributes[i].value} } :
                      i \in 1..Len(node.attributes) }
         \cup { [node EXCEPT !.children = @ \o Copies(c)] : c \in 1..MaxCopies }

Edits(document) ==
    UNION { { ReplaceAt(document, p, e) : e \in NodeEdits(Subtree(document, p)) } :
            p \in Paths(document) }

\* the right documents a left document is compared with
Variations(document) == Rearrangements(document) \cup Edits(document)

\* argument packs of at most MaxKeys keys: 0, 1, 2, 2^64 - 1, hash("r")
KeySet == { ZeroKey, <<1, 0, 0, 0>>, <<2, 0, 0, 0>>,
            <<65535, 65535, 65535, 65535>>, <<15184, 60128, 30657, 51579>> }

KeyPacks == UNION { [1..n -> KeySet] : n \in 0..MaxKeys }

(***************************************************************************)
(* The matcher run on a pair of documents.                                  *)
(***************************************************************************)
NoFrames == <<>>
NoCounts == <<>>

Init ==
    /\ pc = "start"
    /\ lhsDocument \in Documents
    /\ rhsDocument \in Variations(lhsDocument)
    /\ lhsDocumentKey = ZeroKey
    /\ rhsDocumentKey = ZeroKey
    /\ matched = FALSE
    /\ keys = <<>>
    /\ called = {}
    /\ uniqueKey = ZeroKey
    /\ looseKey = ZeroKey
    /\ stack = NoFrames
    /\ returned = ZeroKey
    /\ nodeCalls = NoCounts
    /\ attributeReads = NoCounts
    /\ childCalls = NoCounts
    /\ maxActive = 0

\* bool matchXMLDocumentsLoosely(lhsDocument, rhsDocument)
matchXMLDocumentsLoosely ==
    /\ pc = "start"
    /\ lhsDocumentKey' = computeNodeKey(lhsDocument)
    /\ rhsDocumentKey' = computeNodeKey(rhsDocument)
    /\ matched' = (lhsDocumentKey' = rhsDocumentKey')
    /\ pc' = "done"
    /\ UNCHANGED <<lhsDocument, rhsDocument, combineVars, traverseVars>>

Next == matchXMLDocumentsLoosely

Spec == Init /\ [][Next]_vars

(***************************************************************************)
(* The combiners called on an argument pack.                                *)
(***************************************************************************)
EmptyElement == Element("r", <<>>, <<>>)

CombineInit ==
    /\ pc = "combine"
    /\ keys \in KeyPacks
    /\ called = {}
    /\ uniqueKey = ZeroKey
    /\ looseKey = ZeroKey
    /\ lhsDocument = EmptyElement
    /\ rhsDocument = EmptyElement
    /\ lhsDocumentKey = ZeroKey
    /\ rhsDocumentKey = ZeroKey
    /\ matched = FALSE
    /\ stack = NoFrames
    /\ returned = ZeroKey
    /\ nodeCalls = NoCounts
    /\ attributeReads = NoCounts
    /\ childCalls = NoCounts
    /\ maxActive = 0

\* uniqueKey = keys::combineKeysUniquely(keys...)
CallCombineKeysUniquely ==
    /\ pc = "combine"
    /\ "unique" \notin called
    /\ uniqueKey' = combineKeysUniquely(keys)
    /\ called' = called \cup {"unique"}
    /\ UNCHANGED <<pc, keys, looseKey, lhsDocument, matchVars, traverseVars>>

\* looseKey = keys::combineKeysLoosely(keys...)
CallCombineKeysLoosely ==
    /\ pc = "combine"
    /\ "loose" \notin called
    /\ looseKey' = combineKeysLoosely(keys)
    /\ called' = called \cup {"loose"}
    /\ UNCHANGED <<pc, keys, uniqueKey, lhsDocument, matchVars, traverseVars>>

CombineNext == CallCombineKeysUniquely \/ CallCombineKeysLoosely

CombineSpec == CombineInit /\ [][CombineNext]_vars

(***************************************************************************)
(* computeNodeKey(lhsDocument.document_element()) followed call by call.    *)
(* A frame of the stack is one active invocation of computeNodeKey: the     *)
(* node it was called on, the child std::accumulate visits next with the    *)
(* partial key so far, and the attribute computeAttributesKey reads next    *)
(* with its result so far.                                                  *)
(***************************************************************************)
NewFrame(path) ==
    [path |-> path, next |-> 1, partialKey |-> ZeroKey,
     attribute |-> 1, attributesKey |-> ZeroKey]

AttributeSlots(document) ==
    UNION { { <<p, i>> : i \in 1..Len(Subtree(document, p).attributes) } :
            p \in Paths(document) }

Top == stack[Len(stack)]
TopNode == Subtree(lhsDocument, Top.path)
Max(a, b) == IF a > b THEN a ELSE b

TraverseInit ==
    /\ pc = "start"
    /\ lhsDocument \in Documents
    /\ rhsDocument = lhsDocument
    /\ lhsDocumentKey = ZeroKey
    /\ rhsDocumentKey = ZeroKey
    /\ matched = FALSE
    /\ keys = <<>>
    /\ called = {}
    /\ uniqueKey = ZeroKey
    /\ looseKey = ZeroKey
    /\ stack = NoFrames
    /\ returned = ZeroKey
    /\ nodeCalls = [p \in Paths(lhsDocument) |-> 0]
    /\ attributeReads = [q \in AttributeSlots(lhsDocument) |-> 0]
    /\ childCalls = [p \in Paths(lhsDocument) |-> 0]
    /\ maxActive = 0

\* detail::computeNodeKey(lhsDocument.document_element()) is entered
EnterDocumentElement ==
    /\ pc = "start"
    /\ stack' = <<NewFrame(<<>>)>>
    /\ nodeCalls' = [nodeCalls EXCEPT ![<<>>] = @ + 1]
    /\ maxActive' = Max(maxActive, 1)
    /\ pc' = "lhs"
    /\ UNCHANGED <<lhsDocument, matchVars, combineVars, returned,
                   attributeReads, childCalls>>

\* std::accumulate calls the lambda on the next child, which calls
\* computeNodeKey(child)
AccumulateChild ==
    /\ pc = "lhs"
    /\ Top.next <= Len(TopNode.children)
    /\ LET child == Top.path \o <<Top.next>>
       IN  /\ stack' = Append(stack, NewFrame(child))
           /\ nodeCalls' = [nodeCalls EXCEPT ![child] = @ + 1]
           /\ childCalls' = [childCalls EXCEPT ![Top.path] = @ + 1]
           /\ maxActive' = Max(maxActive, Len(stack) + 1)
    /\ UNCHANGED <<pc, lhsDocument, matchVars, combineVars, returned, attributeReads>>

\* one iteration of the loop of computeAttributesKey(node)
ReadAttribute ==
    /\ pc = "lhs"
    /\ Top.next > Len(TopNode.children)
    /\ Top.attribute <= Len(TopNode.attributes)
    /\ stack' = [stack EXCEPT ![Len(stack)] =
                    [@ EXCEPT !.attributesKey =
                                  combineKeysLoosely(<<@, AttributeKey(TopNode.attributes[Top.attribute])>>),
                              !.attribute = NextAttribute(@)]]
    /\ attributeReads' = [attributeReads EXCEPT ![<<Top.path, Top.attribute>>] = @ + 1]
    /\ UNCHANGED <<pc, lhsDocument, matchVars, combineVars, returned,
                   nodeCalls, childCalls, maxActive>>

\* computeNodeKey(node) returns; the caller's lambda folds the key in, or
\* matchXMLDocumentsLoosely stores it in lhsDocumentKey
ReturnNodeKey ==
    /\ pc = "lhs"
    /\ Top.next > Len(TopNode.children)
    /\ Top.attribute > Len(TopNode.attributes)
    /\ LET key == NodeKeyOf(TopNode.name, child_value(TopNode),
                            Top.attributesKey, Top.partialKey)
           caller == Len(stack) - 1
       IN  /\ returned' = key
           /\ IF caller = 0
              THEN /\ stack' = NoFrames
                   /\ lhsDocumentKey' = key
                   /\ pc' = "done"
              ELSE /\ stack' = [SubSeq(stack, 1, caller) EXCEPT ![caller] =
                                   [@ EXCEPT !.partialKey = AccumulateStep(@, key),
                                             !.next = @ + 1]]
                   /\ UNCHANGED <<pc, lhsDocumentKey>>
    /\ UNCHANGED <<lhsDocument, rhsDocument, rhsDocumentKey, matched, combineVars,
                   nodeCalls, attributeReads, childCalls, maxActive>>

TraverseNext ==
    \/ EnterDocumentElement
    \/ AccumulateChild
    \/ ReadAttribute
    \/ ReturnNodeKey

\* the computation is one synchronous thread of control: it keeps running
\* until it returns
TraverseSpec == TraverseInit /\ [][TraverseNext]_vars /\ WF_vars(TraverseNext)

(***************************************************************************)
(* Properties of the combiners (CombineSpec).                               *)
(***************************************************************************)
\* bit b (0 = least significant) of a key
Bit(key, b) == (key[(b \div 16) + 1] \div (2 ^ (b % 16))) % 2

KeyBits == 0..63

RECURSIVE CountBit(_, _, _)
\* how many of ks[i..] have bit b set
CountBit(ks, b, i) ==
    IF i > Len(ks) THEN 0 ELSE Bit(ks[i], b) + CountBit(ks, b, i + 1)

\* ks with count zero keys inserted after its first pos members
WithZeros(ks, pos, count) ==
    SubSeq(ks, 1, pos) \o [i \in 1..count |-> ZeroKey] \o SubSeq(ks, pos + 1, Len(ks))

\* C5: combineLoosely(k1..kn), n >= 1, is the bitwise XOR of its inputs (each
\* result bit is the parity of that bit over the inputs); every reordering of
\* the inputs gives the same result, and so does inserting zero keys anywhere.
C5_LooseIsXor ==
    ("loose" \in called /\ Len(keys) >= 1) =>
        /\ looseKey \in Key
        /\ \A b \in KeyBits : Bit(looseKey, b) = CountBit(keys, b, 1) % 2
        /\ \A p \in Permuted(keys) : combineKeysLoosely(p) = looseKey
        /\ \A pos \in 0..Len(keys) : \A count \in 1..MaxKeys :
               combineKeysLoosely(WithZeros(keys, pos, count)) = looseKey

\* combineKeysLoosely(2^64 - 1, hash("r"), 1) has been computed
C5_Witness ==
    /\ "loose" \in called
    /\ keys = << <<65535, 65535, 65535, 65535>>, <<15184, 60128, 30657, 51579>>, <<1, 0, 0, 0>> >>
    /\ looseKey = <<50350, 5407, 34878, 13956>>

\* A key as its 64 bits, least significant first (bit b at position b + 1),
\* and 64-bit arithmetic done bit by bit.
RECURSIVE BitsFrom(_, _)
BitsFrom(key, b) ==
    IF b > 63 THEN <<>> ELSE <<Bit(key, b)>> \o BitsFrom(key, b + 1)

ToBits(key) == BitsFrom(key, 0)

ZeroBits == ToBits(ZeroKey)

\* 0x9e3779b9 = 1001 1110 0011 0111 0111 1001 1011 1001
MagicBitSet == {0, 3, 4, 5, 7, 8, 11, 12, 13, 14, 16, 17, 18, 20, 21, 25, 26, 27, 28, 31}

RECURSIVE MagicBitsFrom(_)
MagicBitsFrom(b) ==
    IF b > 63 THEN <<>>
    ELSE <<IF b \in MagicBitSet THEN 1 ELSE 0>> \o MagicBitsFrom(b + 1)

RECURSIVE RippleAdd(_, _, _, _)
\* x + y modulo 2^64 from bit b on, given the carry into bit b
RippleAdd(x, y, b, carry) ==
    IF b > 63 THEN <<>>
    ELSE <<(x[b + 1] + y[b + 1] + carry) % 2>>
         \o RippleAdd(x, y, b + 1, (x[b + 1] + y[b + 1] + carry) \div 2)

AddBits(x, y) == RippleAdd(x, y, 0, 0)

RECURSIVE ShlBitsFrom(_, _, _)
ShlBitsFrom(x, n, b) ==
    IF b > 63 THEN <<>>
    ELSE <<IF b >= n THEN x[b - n + 1] ELSE 0>> \o ShlBitsFrom(x, n, b + 1)

RECURSIVE ShrBitsFrom(_, _, _)
ShrBitsFrom(x, n, b) ==
    IF b > 63 THEN <<>>
    ELSE <<IF b + n <= 63 THEN x[b + n + 1] ELSE 0>> \o ShrBitsFrom(x, n, b + 1)

RECURSIVE XorBitsFrom(_, _, _)
XorBitsFrom(x, y, b) ==
    IF b > 63 THEN <<>>
    ELSE <<(x[b + 1] + y[b + 1]) % 2>> \o XorBitsFrom(x, y, b + 1)

\* acc XOR (key + 0x9e3779b9 + (acc << 6) + (acc >> 2))
HashCombineStep(acc, key) ==
    XorBitsFrom(acc,
                AddBits(AddBits(AddBits(key, MagicBitsFrom(0)), ShlBitsFrom(acc, 6, 0)),
                        ShrBitsFrom(acc, 2, 0)),
                0)

RECURSIVE HashCombineFold(_, _, _)
\* the step applied to ks[i..] in order, starting from acc
HashCombineFold(acc, ks, i) ==
    IF i > Len(ks) THEN acc
    ELSE HashCombineFold(HashCombineStep(acc, ToBits(ks[i])), ks, i + 1)

\* C6: combineUniquely(k1..kn) is the left-to-right fold from accumulator 0 of
\* acc = acc XOR (key + 0x9e3779b9 + (acc << 6) + (acc >> 2)) in 64-bit
\* wrapping arithmetic, each key entering as its own value.
C6_UniqueIsHashCombineFold ==
    "unique" \in called =>
        /\ uniqueKey \in Key
        /\ ToBits(uniqueKey) = HashCombineFold(ZeroBits, keys, 1)

\* combineKeysUniquely(2^64 - 1, hash("r"), 2^64 - 1) has been computed: the
\* additions and the left shift wrap
C6_Witness ==
    /\ "unique" \in called
    /\ keys = << <<65535, 65535, 65535, 65535>>, <<15184, 60128, 30657, 51579>>,
                 <<65535, 65535, 65535, 65535>> >>
    /\ uniqueKey = <<62308, 54257, 44873, 22599>>

\* C7: combineUniquely is not order-insensitive: there are keys k1 # k2 with
\* combineUniquely(k1, k2) # combineUniquely(k2, k1); the call on (1, 2)
\* returns another key than the call on (2, 1) would.
C7_UniqueIsOrderSensitive ==
    /\ \E k1, k2 \in KeySet :
           /\ k1 # k2
           /\ combineKeysUniquely(<<k1, k2>>) # combineKeysUniquely(<<k2, k1>>)
    /\ ("unique" \in called /\ keys = << <<1, 0, 0, 0>>, <<2, 0, 0, 0>> >>) =>
           uniqueKey # combineKeysUniquely(<<keys[2], keys[1]>>)

\* combineKeysUniquely(1, 2) has been computed and differs from
\* combineKeysUniquely(2, 1)
C7_Witness ==
    /\ "unique" \in called
    /\ keys = << <<1, 0, 0, 0>>, <<2, 0, 0, 0>> >>
    /\ uniqueKey = <<48915, 52628, 40, 0>>
    /\ combineKeysUniquely(<< <<2, 0, 0, 0>>, <<1, 0, 0, 0>> >>) = <<48979, 52628, 40, 0>>

\* C8: both combiners are total on the empty argument list: combineUniquely()
\* and combineLoosely() each return the zero key.
C8_EmptyPackGivesZero ==
    (Len(keys) = 0 /\ called = {"unique", "loose"}) =>
        /\ uniqueKey = ZeroKey
        /\ looseKey = ZeroKey

(***************************************************************************)
(* Properties of the matcher (Spec).                                        *)
(***************************************************************************)
\* the same attributes, in any order
SameAttributes(a, b) ==
    /\ Len(a) = Len(b)
    /\ \E pi \in Permutations(Len(a)) : \A i \in 1..Len(a) : a[i] = b[pi[i]]

RECURSIVE Isomorphic(_, _)
\* equal up to the order of the attributes and of the children at every
\* level: corresponding nodes have the same type, name, value, direct text
\* and attributes
Isomorphic(a, b) ==
    /\ a.type = b.type
    /\ a.name = b.name
    /\ a.value = b.value
    /\ child_value(a) = child_value(b)
    /\ SameAttributes(a.attributes, b.attributes)
    /\ Len(a.children) = Len(b.children)
    /\ \E pi \in Permutations(Len(a.children)) :
           \A i \in 1..Len(a.children) : Isomorphic(a.children[i], b.children[pi[i]])

\* C1: two trees that are isomorphic up to the order of attributes and of
\* children at every level match (a tree matches itself); attributesKey of a
\* node is the same for every order of its attributes, and nodeKey of a node
\* is the same for every order of its children that keeps its direct text.
\* (Every element of a left document is itself the root of a left document,
\* so the node is taken at the root.)
C1_IsomorphicTreesMatch ==
    pc = "done" =>
        /\ Isomorphic(lhsDocument, rhsDocument) => matched
        /\ \A a \in Permuted(lhsDocument.attributes) :
               computeAttributesKey([lhsDocument EXCEPT !.attributes = a])
                   = computeAttributesKey(lhsDocument)
        /\ \A c \in Permuted(lhsDocument.children) :
               child_value([lhsDocument EXCEPT !.children = c]) = child_value(lhsDocument)
                   => computeNodeKey([lhsDocument EXCEPT !.children = c]) = lhsDocumentKey

\* <r><x a="1" b="1"/><r/></r> has been matched with <r><r/><x b="1" a="1"/></r>
C1_Witness ==
    /\ pc = "done"
    /\ lhsDocument = Element("r", <<>>,
                        << Element("x", <<Attribute("a", "1"), Attribute("b", "1")>>, <<>>),
                           Element("r", <<>>, <<>>) >>)
    /\ rhsDocument = Element("r", <<>>,
                        << Element("r", <<>>, <<>>),
                           Element("x", <<Attribute("b", "1"), Attribute("a", "1")>>, <<>>) >>)
    /\ Isomorphic(lhsDocument, rhsDocument)
    /\ matched

\* C2: two trees that are not isomorphic up to the order of attributes and of
\* children do not match; among them the trees that differ only in how many
\* copies of an identical child a node has.
C2_DifferentTreesDoNotMatch ==
    (pc = "done" /\ ~Isomorphic(lhsDocument, rhsDocument)) => ~matched

\* node with the value of its first pcdata child replaced
RECURSIVE WithFirstText(_, _, _)
WithFirstText(children, i, text) ==
    IF i > Len(children) THEN children
    ELSE IF children[i].type = "pcdata" THEN [children EXCEPT ![i] = Pcdata(text)]
    ELSE WithFirstText(children, i + 1, text)

HasText(node) == \E i \in 1..Len(node.children) : node.children[i].type = "pcdata"

\* the nodes got from an element by replacing its tag name
NameEdits(node) ==
    { [node EXCEPT !.name = n] :
          n \in { m \in EditNames : stringHasher(m) # stringHasher(node.name) } }

\* ... by replacing its direct text
TextEdits(node) ==
    IF HasText(node)
    THEN { [node EXCEPT !.children = WithFirstText(@, 1, t)] :
               t \in { u \in EditTexts : stringHasher(u) # stringHasher(child_value(node)) } }
    ELSE {}

\* ... by replacing the value of attribute i
ValueEdits(node, i) ==
    { [node EXCEPT !.attributes[i].value = v] :
          v \in { w \in EditValues : stringHasher(w) # stringHasher(node.attributes[i].value) } }

\* the nodes got from an element by one such replacement
FacetEdits(node) ==
    NameEdits(node) \cup TextEdits(node)
    \cup UNION { ValueEdits(node, i) : i \in 1..Len(node.attributes) }

\* C3 as stated: replacing the value of one attribute, the tag name or the
\* direct text of a node by a text of another hash, everything else in the
\* subtree unchanged, gives a different nodeKey of that node.
\* (The node is taken at the root, as for C1: the right document is the left
\* one with that replacement made at its document element.)
C3_EditChangesNodeKey ==
    (pc = "done" /\ rhsDocument \in FacetEdits(lhsDocument)) =>
        rhsDocumentKey # lhsDocumentKey

\* the accumulator of computeNodeKey's fold after its first n arguments
NodeKeyPrefix(node, n) ==
    combineKeysUniquely(SubSeq(<<stringHasher(node.name), stringHasher(child_value(node)),
                                 computeAttributesKey(node)>>, 1, n))

\* C3 as amended: such a replacement changes the accumulator of the node's
\* fold at the step where the replaced facet enters: after the tag name for
\* a new tag name, after the text for a new direct text, and for a new
\* attribute value the attribute's key, attributesKey and the accumulator
\* after attributesKey.
C3_EditChangesAccumulator ==
    pc = "done" =>
        /\ \A edited \in NameEdits(lhsDocument) :
               NodeKeyPrefix(edited, 1) # NodeKeyPrefix(lhsDocument, 1)
        /\ \A edited \in TextEdits(lhsDocument) :
               NodeKeyPrefix(edited, 2) # NodeKeyPrefix(lhsDocument, 2)
        /\ \A i \in 1..Len(lhsDocument.attributes) :
               \A edited \in ValueEdits(lhsDocument, i) :
                   /\ AttributeKey(edited.attributes[i]) # AttributeKey(lhsDocument.attributes[i])
                   /\ computeAttributesKey(edited) # computeAttributesKey(lhsDocument)
                   /\ NodeKeyPrefix(edited, 3) # NodeKeyPrefix(lhsDocument, 3)

\* <r>pqxouyrkxjkohxjd</r> has been matched with <r>trvumytiqjaoophc</r>: the
\* accumulators after the text differ, the node keys do not
C3_Witness ==
    /\ pc = "done"
    /\ lhsDocument = Element("r", <<>>, <<Pcdata(FirstText)>>)
    /\ rhsDocument \in TextEdits(lhsDocument)
    /\ NodeKeyPrefix(lhsDocument, 2) # NodeKeyPrefix(rhsDocument, 2)
    /\ lhsDocumentKey = rhsDocumentKey

\* the nodes on the way from the root to the node at path, both included
Prefixes(path) == { SubSeq(path, 1, n) : n \in 0..Len(path) }

\* the two documents are the same outside the subtree at path
SameOutside(path) ==
    /\ path \in Paths(lhsDocument) \cap Paths(rhsDocument)
    /\ ReplaceAt(lhsDocument, path, Subtree(rhsDocument, path)) = rhsDocument

\* C4: if two trees are the same except inside the subtree of a node N and
\* nodeKey(N) differs between them, nodeKey of every ancestor of N up to the
\* root differs too and the trees do not match; for fixed tag, text and
\* attributes key the node key is injective in the children key.
C4_DifferencePropagates ==
    pc = "done" =>
        /\ LET common == Paths(lhsDocument) \cap Paths(rhsDocument)
               differing == { p \in common :
                                  /\ Subtree(lhsDocument, p) # Subtree(rhsDocument, p)
                                  /\ computeNodeKey(Subtree(lhsDocument, p))
                                         # computeNodeKey(Subtree(rhsDocument, p)) }
           IN  \A N \in differing :
                   SameOutside(N) => /\ Prefixes(N) \subseteq differing
                                     /\ lhsDocumentKey # rhsDocumentKey
                                     /\ ~matched
        /\ LET childrenKeys == KeySet \cup {lhsDocumentKey, rhsDocumentKey}
               name == stringHasher(lhsDocument.name)
               text == stringHasher(child_value(lhsDocument))
               attributesKey == computeAttributesKey(lhsDocument)
           IN  Cardinality({combineKeysUniquely(<<name, text, attributesKey, k>>) :
                                k \in childrenKeys})
                   = Cardinality(childrenKeys)

\* <r><r><r/></r></r> has been compared with <r><r><y/></r></r>: the keys
\* differ at the grandchild, at the child and at the root
C4_Witness ==
    /\ pc = "done"
    /\ lhsDocument = Element("r", <<>>, <<Element("r", <<>>, <<Element("r", <<>>, <<>>)>>)>>)
    /\ rhsDocument = Element("r", <<>>, <<Element("r", <<>>, <<Element("y", <<>>, <<>>)>>)>>)
    /\ SameOutside(<<1, 1>>)
    /\ computeNodeKey(Subtree(lhsDocument, <<1, 1>>)) # computeNodeKey(Subtree(rhsDocument, <<1, 1>>))
    /\ computeNodeKey(Subtree(lhsDocument, <<1>>)) # computeNodeKey(Subtree(rhsDocument, <<1>>))
    /\ ~matched

\* combineLoosely over all members of a list at once, the zero key for none
LooselyOver(ks) == IF Len(ks) = 0 THEN ZeroKey ELSE combineKeysLoosely(ks)

RECURSIVE NodeKeyAsSpecified(_)
\* combineUniquely(hash(tagName), hash(textValue), attributesKey, childrenKey)
\* with attributesKey and childrenKey each one n-ary XOR
NodeKeyAsSpecified(node) ==
    combineKeysUniquely(
        << stringHasher(node.name),
           stringHasher(child_value(node)),
           LooselyOver([i \in 1..Len(node.attributes) |->
                           combineKeysUniquely(<<stringHasher(node.attributes[i].name),
                                                 stringHasher(node.attributes[i].value)>>)]),
           LooselyOver([i \in 1..Len(node.children) |->
                           NodeKeyAsSpecified(node.children[i])]) >>)

\* C9: nodeKey(node) = combineUniquely(hash(tagName), hash(textValue),
\* attributesKey(node), childrenKey) in that order, attributesKey the XOR over
\* the attributes of combineUniquely(hash(name), hash(value)) and childrenKey
\* the XOR over the children of their nodeKey; the pairwise folds seeded with
\* zero give the n-ary combinations, zero for no attributes and no children.
\* (NodeKeyAsSpecified applies the formula at every node of both documents.)
C9_NodeKeyFormula ==
    pc = "done" =>
        /\ lhsDocumentKey = NodeKeyAsSpecified(lhsDocument)
        /\ rhsDocumentKey = NodeKeyAsSpecified(rhsDocument)
        /\ Len(lhsDocument.attributes) = 0 => computeAttributesKey(lhsDocument) = ZeroKey
        /\ Len(lhsDocument.children) = 0 =>
               lhsDocumentKey
                   = combineKeysUniquely(<<stringHasher(lhsDocument.name), stringHasher(""),
                                           computeAttributesKey(lhsDocument), ZeroKey>>)

\* the key of <r><x a="2" b="1"/><r/></r> has been computed: 7087893580869632550
C9_Witness ==
    /\ pc = "done"
    /\ rhsDocument = Element("r", <<>>,
                        << Element("x", <<Attribute("a", "2"), Attribute("b", "1")>>, <<>>),
                           Element("r", <<>>, <<>>) >>)
    /\ rhsDocumentKey = <<33318, 38273, 16808, 25181>>

(***************************************************************************)
(* Properties of the traversal (TraverseSpec).                              *)
(***************************************************************************)
RECURSIVE DepthFrom(_, _)
RECURSIVE Depth(_)
\* the largest Depth among children[i..], 0 for none
DepthFrom(children, i) ==
    IF i > Len(children) THEN 0
    ELSE Max(Depth(children[i]), DepthFrom(children, i + 1))

\* the number of nodes on the longest way from node down to a leaf
Depth(node) == 1 + DepthFrom(node.children, 1)

\* C10: on a finite tree the recursive nodeKey computation terminates; it is
\* invoked exactly once for each node, reads each attribute exactly once, has
\* at most depth-of-the-tree invocations active at a time and reaches that
\* number, and a leaf's invocation makes no recursive call.
C10_TraversalTerminates ==
    /\ <>(pc = "done")
    /\ [](/\ \A p \in DOMAIN nodeCalls : nodeCalls[p] <= 1
          /\ \A q \in DOMAIN attributeReads : attributeReads[q] <= 1
          /\ Len(stack) <= Depth(lhsDocument)
          /\ maxActive <= Depth(lhsDocument)
          /\ \A p \in DOMAIN childCalls :
                 childCalls[p] <= Len(Subtree(lhsDocument, p).children))
    /\ [](pc = "done" =>
              /\ stack = NoFrames
              /\ \A p \in Paths(lhsDocument) : nodeCalls[p] = 1
              /\ \A q \in AttributeSlots(lhsDocument) : attributeReads[q] = 1
              /\ maxActive = Depth(lhsDocument)
              /\ \A p \in Paths(lhsDocument) :
                     Len(Subtree(lhsDocument, p).children) = 0 => childCalls[p] = 0
              /\ lhsDocumentKey = computeNodeKey(lhsDocument))

\* the traversal of <r><x a="1" b="1"><r/></x></r> has ended: three nodes,
\* two attributes, three invocations active at its deepest
C10_Witness ==
    /\ pc = "done"
    /\ lhsDocument = Element("r", <<>>,
                        <<Element("x", <<Attribute("a", "1"), Attribute("b", "1")>>,
                                  <<Element("r", <<>>, <<>>)>>)>>)
    /\ maxActive = 3
    /\ nodeCalls[<<1, 1>>] = 1
    /\ attributeReads[<<<<1>>, 2>>] = 1
    /\ childCalls[<<1, 1>>] = 0

====
